---- MODULE Spec2Model ----
(***************************************************************************)
(* vite-plugin-rehost: the AsyncFileCache class (src/src/AsyncFileCache.ts) *)
(* and the module-level functions of the plugin (src/src/plugin.ts).        *)
(*                                                                         *)
(* A URL string is a sequence of tokens ("https:", "//", a host, "/", a    *)
(* path segment, "?", ...); a file identity is a sequence of tokens too.   *)
(* Promises are records with a state; every continuation of a promise is   *)
(* an action of its own, so continuations interleave in every order.       *)
(***************************************************************************)
EXTENDS Naturals, Sequences, FiniteSets

(***************************************************************************)
(* URL strings                                                             *)
(***************************************************************************)

\* tokens of the shape name.tld: url-regex reads each as host + tld
Dotted ==
  {"cdn.example.com", "fonts.googleapis.com", "www.googletagmanager.com",
   "a.css", "b.css", "rel.css", "imp.css", "bg.png", "dot.png", "app.js",
   "gtag.js", "x.css", "analytics.example.com"}

\* tokens that begin with "www." and go on as host + tld
WwwNames == {"www.googletagmanager.com"}

\* schemes the WHATWG URL parser reads a host after
Schemes == {"http:", "https:", "ftp:"}

CssA == <<"https:", "//", "cdn.example.com", "/", "css", "/", "a.css">>
CssB == <<"https:", "//", "cdn.example.com", "/", "css", "/", "b.css">>
CssRel == <<"https:", "//", "cdn.example.com", "/", "css", "/", "rel.css">>
CssImp == <<"https:", "//", "cdn.example.com", "/", "css", "/", "imp.css">>
Img == <<"https:", "//", "cdn.example.com", "/", "img", "/", "bg.png">>
Script == <<"http:", "//", "cdn.example.com", "/", "js", "/", "app.js">>
Fonts400 ==
  <<"https:", "//", "fonts.googleapis.com", "/", "css", "?", "family=",
    "Roboto", ":", "400">>
Fonts700 ==
  <<"https:", "//", "fonts.googleapis.com", "/", "css", "?", "family=",
    "Roboto", ":", "700">>
FontsNoFamily ==
  <<"https:", "//", "fonts.googleapis.com", "/", "css", "?", "display=",
    "swap">>
Gtag ==
  <<"https:", "//", "www.googletagmanager.com", "/", "gtag", "/", "js",
    "?", "id=", "G1">>
ProtoRel == <<"//", "cdn.example.com", "/", "img", "/", "bg.png">>
LocalCss == <<"/", "assets", "/", "main.css">>
LocalJs == <<"assets", "/", "main.js">>
FtpCss == <<"ftp:", "//", "cdn.example.com", "/", "css", "/", "a.css">>
Redirect ==
  <<"/", "go", "?", "next=", "https:", "//", "cdn.example.com", "/", "x.css">>
BareDot == <<"dot.png">>
AppCss ==
  <<"https:", "//", "cdn.example.com", "/", "styles", "/", "a", "/", "app.css">>
CssPad == <<"https:", "//", "cdn.example.com", "/", "css", "/", "pad.css">>
CssProto == <<"https:", "//", "cdn.example.com", "/", "css", "/", "proto.css">>
CssMany == <<"https:", "//", "cdn.example.com", "/", "css", "/", "many.css">>
Track == <<"//", "analytics.example.com", "/", "track.png">>
UpOne == <<"..", "/", "img", "/", "a.png">>
UpThree == <<"..", "/", "..", "/", "..", "/", "up.png">>

\* index of the first occurrence of token t in s, 0 when there is none
RECURSIVE IndexFrom(_, _, _)
IndexFrom(s, t, i) ==
  IF i > Len(s) THEN 0 ELSE IF s[i] = t THEN i ELSE IndexFrom(s, t, i + 1)

IndexOf(s, t) == IndexFrom(s, t, 1)

\* index of the last occurrence of token t in s, 0 when there is none
LastIndexOf(s, t) ==
  IF \E i \in 1..Len(s) : s[i] = t
  THEN CHOOSE i \in 1..Len(s) : s[i] = t /\ \A j \in (i + 1)..Len(s) : s[j] # t
  ELSE 0

\* /^(https?:)?\/\//.test(url)
isExternalUrlPrefix(url) ==
  \/ Len(url) >= 1 /\ url[1] = "//"
  \/ Len(url) >= 2 /\ url[1] \in {"http:", "https:"} /\ url[2] = "//"

\* urlRegex().test(url): url-regex without `exact` finds a URL anywhere in the
\* string: ((scheme:)?// or www.) followed by localhost or host.tld
urlRegexTest(url) ==
  \E i \in 1..Len(url) :
    \/ url[i] = "//" /\ i < Len(url) /\ url[i + 1] \in Dotted \cup {"localhost"}
    \/ url[i] \in WwwNames

isExternalUrl(url) == urlRegexTest(url)

\* new URL(url) without a base: parses only scheme://host...
ValidUrl(url) ==
  Len(url) >= 3 /\ url[1] \in Schemes /\ url[2] = "//" /\ url[3] \notin {"/", "?", "//"}

UrlHost(url) == url[3]

UrlPathname(url) ==
  LET q == IndexOf(url, "?")
      last == IF q = 0 THEN Len(url) ELSE q - 1
  IN  IF last < 4 THEN <<"/">> ELSE SubSeq(url, 4, last)

UrlSearch(url) ==
  LET q == IndexOf(url, "?")
  IN  IF q = 0 THEN <<>> ELSE SubSeq(url, q + 1, Len(url))

\* URLSearchParams decodes "+" and percent escapes of a value
DecodeQueryToken(t) == IF t = "Open+Sans" THEN "Open Sans" ELSE t

\* searchParams.get(name): the decoded tokens after "name=" up to the next "&";
\* <<>> stands for null (no such parameter)
SearchParam(url, name) ==
  LET s == UrlSearch(url)
      k == IndexOf(s, name)
      rest == IF k = 0 THEN <<>> ELSE SubSeq(s, k + 1, Len(s))
      e == IndexOf(rest, "&")
      v == IF e = 0 THEN rest ELSE SubSeq(rest, 1, e - 1)
  IN  [i \in 1..Len(v) |-> DecodeQueryToken(v[i])]

\* value.split(':')[0]
BeforeColon(v) ==
  LET c == IndexOf(v, ":") IN IF c = 0 THEN v ELSE SubSeq(v, 1, c - 1)

\* decodeURIComponent on one token
DecodeToken(t) == IF t = "bg%2Epng" THEN "bg.png" ELSE t

decodeURIComponent(s) == [i \in 1..Len(s) |-> DecodeToken(s[i])]

\* toFilePath that throws for an invalid URL only (a null family is "")
toFilePathThrowsInvalid(url) == ~ValidUrl(url)

\* toFilePath throws: new URL rejects the string, or family is null
toFilePathThrows(url) ==
  \/ ~ValidUrl(url)
  \/ UrlHost(url) = "fonts.googleapis.com" /\ SearchParam(url, "family=") = <<>>

\* toFilePath of the first plugin: file += host + pathname
toFilePathRaw(url) ==
  LET host == UrlHost(url) IN
  IF host = "www.googletagmanager.com" THEN <<"/", host, "/", "gtag.js">>
  ELSE IF host = "fonts.googleapis.com"
  THEN <<"/", host, "/">> \o BeforeColon(SearchParam(url, "family=")) \o <<".css">>
  ELSE <<"/", host>> \o UrlPathname(url)

toFilePath(url) ==
  LET host == UrlHost(url) IN
  IF host = "www.googletagmanager.com" THEN <<"/", host, "/", "gtag.js">>
  ELSE IF host = "fonts.googleapis.com"
  THEN <<"/", host, "/">> \o BeforeColon(SearchParam(url, "family=")) \o <<".css">>
  ELSE <<"/", host>> \o decodeURIComponent(UrlPathname(url))

(***************************************************************************)
(* Stylesheet text and replaceCssUrls                                      *)
(***************************************************************************)

\* a stylesheet text is a sequence of chunks: plain text, or one url( token )
\* match of cssUrlRE with its quote character ("" for a bare token) and the
\* whitespace between the parentheses and the token
TextChunk(s) ==
  [kind |-> "text", s |-> s, quote |-> "", target |-> <<>>, lead |-> "", trail |-> ""]
PaddedUrlChunk(l, q, t, r) ==
  [kind |-> "url", s |-> "", quote |-> q, target |-> t, lead |-> l, trail |-> r]
UrlChunk(q, t) == PaddedUrlChunk("", q, t, "")

\* the body the network serves for a URL
Body(url) ==
  IF url = CssA
  THEN <<TextChunk("body{background:"), UrlChunk("", Img), TextChunk("}")>>
  ELSE IF url = CssB
  THEN <<TextChunk("p{background:"), UrlChunk("\"", Img), TextChunk("}")>>
  ELSE IF url = CssRel
  THEN <<TextChunk("i{background:"), UrlChunk("'", BareDot), TextChunk("}")>>
  ELSE IF url = CssImp
  THEN <<TextChunk("@import "), UrlChunk("", CssA), TextChunk(";")>>
  ELSE IF url = AppCss
  THEN <<TextChunk("h1{background:"), UrlChunk("", UpOne), TextChunk("}")>>
  ELSE IF url = CssPad
  THEN <<TextChunk("a{background:"), PaddedUrlChunk(" ", "'", Img, " "),
         TextChunk("}b{background:"), PaddedUrlChunk(" ", "", UpThree, ""),
         TextChunk("}")>>
  ELSE IF url = CssProto
  THEN <<TextChunk("a{background:"), UrlChunk("", Img),
         TextChunk("}b{background:"), UrlChunk("", Track), TextChunk("}")>>
  ELSE IF url = CssMany
  THEN <<TextChunk("a{background:"), PaddedUrlChunk(" ", "\"", Img, ""),
         TextChunk("}b{background:"), UrlChunk("", Script),
         TextChunk("}c{background:"), UrlChunk("'", BareDot),
         TextChunk("}d{background:"), UrlChunk("", UpOne),
         TextChunk("}e{background:"), UrlChunk("'", UpThree), TextChunk("}")>>
  ELSE <<TextChunk("data")>>

\* relative(parentUrl, url) of @cush/relative: url resolved against the
\* directory of parentUrl; <<>> (null) when ".." leaves the root of the path
RECURSIVE relativeFrom(_, _)
relativeFrom(dir, url) ==
  IF Len(url) >= 2 /\ url[1] = "." /\ url[2] = "/"
  THEN relativeFrom(dir, SubSeq(url, 3, Len(url)))
  ELSE IF Len(url) >= 2 /\ url[1] = ".." /\ url[2] = "/"
  THEN IF Len(dir) >= 2 /\ dir[Len(dir)] = "/" /\ dir[Len(dir) - 1] \notin {"/", "//"}
            /\ Len(dir) >= 5
       THEN relativeFrom(SubSeq(dir, 1, Len(dir) - 2), SubSeq(url, 3, Len(url)))
       ELSE <<>>
  ELSE dir \o url

\* parentUrl.slice(0, parentUrl.lastIndexOf('/') + 1)
ParentDir(parentUrl) ==
  LET a == LastIndexOf(parentUrl, "/")
      b == LastIndexOf(parentUrl, "//")
  IN  SubSeq(parentUrl, 1, IF a > b THEN a ELSE b)

relative(parentUrl, url) == relativeFrom(ParentDir(parentUrl), url)

\* resolution that joins every token that is not external to the directory
ResolveCssUrlJoin(parentUrl, url) ==
  IF ~isExternalUrl(url) THEN ParentDir(parentUrl) \o url ELSE url

\* the URL replaceCssUrls classifies for one match (quotes already stripped)
ResolveCssUrl(parentUrl, url) ==
  IF Len(url) >= 2 /\ url[1] \in {".", ".."} /\ url[2] = "/"
  THEN IF relative(parentUrl, url) = <<>> THEN url ELSE relative(parentUrl, url)
  ELSE IF ~isExternalUrl(url)
  THEN ParentDir(parentUrl) \o url
  ELSE url

\* the resolved URLs of the url() matches of a text that go to the replacer, in
\* scan order
RECURSIVE ExternalMatches(_, _, _)
ExternalMatches(text, parentUrl, i) ==
  IF i > Len(text) THEN <<>>
  ELSE IF text[i].kind = "url" /\ isExternalUrl(ResolveCssUrl(parentUrl, text[i].target))
  THEN <<ResolveCssUrl(parentUrl, text[i].target)>> \o ExternalMatches(text, parentUrl, i + 1)
  ELSE ExternalMatches(text, parentUrl, i + 1)

\* toPublicUrl, the function the cache is constructed with: the identity itself
toPublicUrl(file) == file

\* the text replaceCssUrls returns: each external match overwritten by
\* JSON.stringify of the replacer's result, everything else kept
RewriteCss(text, parentUrl) ==
  [i \in 1..Len(text) |->
    IF text[i].kind = "url" /\ isExternalUrl(ResolveCssUrl(parentUrl, text[i].target))
       /\ ~toFilePathThrows(ResolveCssUrl(parentUrl, text[i].target))
    THEN UrlChunk("\"", toPublicUrl(toFilePath(ResolveCssUrl(parentUrl, text[i].target))))
    ELSE text[i]]

(***************************************************************************)
(* Bounds and the documents the cache is driven with                       *)
(***************************************************************************)

\* direct calls of the public fetchText / fetchBuffer
MaxCalls == 2

Link(u) == [tag |-> "link", url |-> u]
ScriptEl(u) == [tag |-> "script", url |-> u]

DocFonts == <<Link(Fonts400), Link(Fonts700), ScriptEl(Script)>>
DocCss == <<Link(CssA), Link(CssB)>>
DocLocal == <<Link(LocalCss), ScriptEl(LocalJs), Link(FtpCss)>>
DocOdd == <<Link(Redirect), ScriptEl(Gtag), Link(FontsNoFamily)>>

\* the document the fetch memoizer is driven with: two stylesheets that
\* reference the same image, and a script element with the URL of that image
DocOne == <<Link(CssA), Link(CssB), ScriptEl(Img)>>

DocRel == <<Link(CssRel)>>

Docs == {DocFonts, DocCss, DocLocal, DocOdd, DocRel}

\* URLs the public fetchText, fetchBuffer and fetchAsset are called with directly
DirectUrls == {Img}

\* URLs fetchAsset is called with by a user of the class
AssetUrls == DirectUrls \cup {FontsNoFamily}

EmptyMap == [x \in {} |-> 0]
Put(f, k, v) == [x \in DOMAIN f \cup {k} |-> IF x = k THEN v ELSE f[x]]
Del(f, k) == [x \in DOMAIN f \ {k} |-> f[x]]
Count(f, k) == IF k \in DOMAIN f THEN f[k] ELSE 0

(***************************************************************************)
(* State                                                                   *)
(***************************************************************************)
VARIABLES
  doc,       \* the elements of the document: tag and original URL attribute
  attr,      \* the current href / src of each element
  loaders,   \* AsyncFileCache.loaders: identity -> producer not yet started
  files,     \* AsyncFileCache.files: identity -> the promise of its content
  order,     \* the identities of files in insertion order (Object.entries, and
             \* the chain of filesPromise: barrier k is the one set by order[k])
  requests,  \* AsyncFileCache.requests: URL -> state of the Response promise
  netCalls,  \* URL -> number of times node-fetch was invoked for it
  bodyUsed,  \* the URLs whose Response body has been read
  calls,     \* the direct fetchText / fetchBuffer calls and what they got
  ePc,       \* where the entries() call is
  eAwait,    \* the barrier entries() awaits (its local `promise`)
  eFrom,     \* the number of computations started when entries() was called
  eSnap,     \* Object.entries(this.files) as entries() read it
  eResult,   \* the pairs entries() resolved with
  raised     \* the URLs for which fetchStyles, fetchScript or fetchAsset threw

cacheVars ==
  <<doc, attr, loaders, files, order, requests, netCalls, bodyUsed, calls,
    ePc, eAwait, eFrom, eSnap, eResult, raised>>

VARIABLES
  pIn,       \* the URL toFilePath is called with, by its parts
  pOut       \* what the calls of toFilePath returned, in call order

pathVars == <<pIn, pOut>>

\* no call of toFilePath outside the cache
PathIdle == pIn = <<>> /\ pOut = <<>>

VARIABLES
  cParent,   \* replaceCssUrls: parentUrl (text is the body served for it)
  cPc,       \* where the call of replaceCssUrls is
  cArgs,     \* the URLs the replacer was called with, in call order
  cEd,       \* the MagicString editor
  cPending,  \* the matches whose replacer promise has not been handled yet
  cDone,     \* the matches in the order their replacer promises completed
  cOut       \* the text replaceCssUrls returned

cssVars == <<cParent, cPc, cArgs, cEd, cPending, cDone, cOut>>

\* new MagicString(text)
NewEditor(text) == [orig |-> text, edits |-> [x \in {} |-> 0]]

\* no call of replaceCssUrls outside the cache
CssIdle ==
  /\ cParent = <<>>
  /\ cPc = "idle"
  /\ cArgs = <<>>
  /\ cEd = NewEditor(<<>>)
  /\ cPending = {}
  /\ cDone = <<>>
  /\ cOut = <<>>

VARIABLES
  pluginFiles,  \* plugin.ts: files of the plugin instance, identity -> content
  textCache,    \* plugin.ts: textCache, URL -> state of the promise of its text
  bufferCache,  \* plugin.ts: bufferCache, URL -> state of the promise of its bytes
  tPc,          \* where each call of transformIndexHtml.transform is
  tDoc,         \* the document each call was given
  tAttr,        \* the href / src of the elements of each call's document
  tasks,        \* the pending and settled fetchStyles / fetchScript / fetchAsset calls
  phase,        \* "new", "building" after a hook of the build ran, "closed" after closeBundle
  useEmitFile,  \* configResolved: let useEmitFile
  emitCache,    \* emitCache of the plugin instance, identity -> kind of the entry
  emitted,      \* this.emitFile calls of the current build, per identity
  written,      \* fs.writeFileSync calls of the current build, per identity
  returned      \* what resolveBuiltUrl returned in the current build, per identity

transformVars == <<pluginFiles, textCache, bufferCache, tPc, tDoc, tAttr, tasks>>

buildVars == <<phase, useEmitFile, emitCache, emitted, written, returned>>

pluginVars == <<transformVars, buildVars>>

\* the state after the plugin factory `export default (): Plugin => {...}`
PluginIdle ==
  /\ pluginFiles = [x \in {} |-> 0]
  /\ textCache = [x \in {} |-> 0]
  /\ bufferCache = [x \in {} |-> 0]
  /\ tPc = <<>>
  /\ tDoc = <<>>
  /\ tAttr = <<>>
  /\ tasks = {}
  /\ phase = "new"
  /\ useEmitFile = TRUE
  /\ emitCache = [x \in {} |-> 0]
  /\ emitted = [x \in {} |-> 0]
  /\ written = [x \in {} |-> 0]
  /\ returned = [x \in {} |-> 0]

\* the variables the cache does not own
otherVars == <<pathVars, cssVars, pluginVars>>

OtherIdle == PathIdle /\ CssIdle /\ PluginIdle

vars == <<cacheVars, otherVars>>

\* the state after `new AsyncFileCache(toPublicUrl)`, with the document d
InitWith(d) ==
  /\ doc = d
  /\ attr = [e \in 1..Len(doc) |-> doc[e].url]
  /\ loaders = EmptyMap
  /\ files = EmptyMap
  /\ order = <<>>
  /\ requests = EmptyMap
  /\ netCalls = EmptyMap
  /\ bodyUsed = {}
  /\ calls = <<>>
  /\ ePc = "idle"
  /\ eAwait = 0
  /\ eFrom = 0
  /\ eSnap = <<>>
  /\ eResult = <<>>
  /\ raised = {}

InitCache == OtherIdle /\ \E d \in Docs : InitWith(d)

(***************************************************************************)
(* AsyncFileCache                                                          *)
(***************************************************************************)

\* has(id)
has(id) == id \in DOMAIN files \/ id \in DOMAIN loaders

StylesLoader(url) == [kind |-> "styles", url |-> url]
ScriptLoader(url) == [kind |-> "script", url |-> url]
AssetLoader(url) == [kind |-> "asset", url |-> url]

\* Register with `=` for `??=`: a later discovery replaces the producer
RegisterOverwrite(ld, fs, file, loader) ==
  IF file \in DOMAIN fs THEN ld ELSE Put(ld, file, loader)

\* Register without the test of this.files
RegisterIgnoringFiles(ld, fs, file, loader) ==
  IF file \in DOMAIN ld THEN ld ELSE Put(ld, file, loader)

\* Register that stores nothing (the producer is created after an await)
RegisterNever(ld, fs, file, loader) == ld

\* if (!this.files[file]) this.loaders[file] ??= loader
Register(ld, fs, file, loader) ==
  IF file \in DOMAIN fs THEN ld
  ELSE IF file \in DOMAIN ld THEN ld
  ELSE Put(ld, file, loader)

\* fetch(url): the request is reused when this.requests holds one
FetchHit(url) == url \in DOMAIN requests

\* node-fetch: only http and https are supported
NetOutcomes(url) == IF url[1] \in {"http:", "https:"} THEN {"ok", "failed"} ELSE {"failed"}

\* a fetch that does not look into this.requests
DoFetchAlways(url) ==
  /\ requests' = Put(requests, url, "pending")
  /\ netCalls' = Put(netCalls, url, Count(netCalls, url) + 1)

\* this.fetch(url), as fetchText and fetchBuffer call it
DoFetch(url) ==
  IF FetchHit(url)
  THEN UNCHANGED <<requests, netCalls>>
  ELSE /\ requests' = Put(requests, url, "pending")
       /\ netCalls' = Put(netCalls, url, Count(netCalls, url) + 1)

NoContent == [kind |-> "none", data |-> <<>>]

\* res.text() and res.buffer() of the response for url
TextOf(url) == [kind |-> "text", data |-> Body(url)]
BufferOf(url) == [kind |-> "bytes", data |-> Body(url)]

\* fetchStyles(cssRef), cssRef the link element e; when toFilePath throws the
\* call throws before it has changed anything
fetchStyles(e) ==
  /\ e \in 1..Len(doc)
  /\ doc[e].tag = "link"
  /\ LET cssUrl == attr[e] IN
     IF cssUrl # <<>> /\ isExternalUrl(cssUrl)
     THEN IF toFilePathThrows(cssUrl)
          THEN /\ raised' = raised \cup {cssUrl}
               /\ UNCHANGED <<attr, loaders>>
          ELSE /\ attr' = [attr EXCEPT ![e] = toFilePath(cssUrl)]
               /\ loaders' = Register(loaders, files, toFilePath(cssUrl),
                                      StylesLoader(cssUrl))
               /\ UNCHANGED raised
     ELSE UNCHANGED <<attr, loaders, raised>>
  /\ UNCHANGED <<otherVars, doc, files, order, requests, netCalls, bodyUsed, calls, ePc, eAwait, eFrom,
                 eSnap, eResult>>

\* fetchScript(scriptRef), scriptRef the script element e
fetchScript(e) ==
  /\ e \in 1..Len(doc)
  /\ doc[e].tag = "script"
  /\ LET scriptUrl == attr[e] IN
     IF scriptUrl # <<>> /\ isExternalUrl(scriptUrl)
     THEN IF toFilePathThrows(scriptUrl)
          THEN /\ raised' = raised \cup {scriptUrl}
               /\ UNCHANGED <<attr, loaders>>
          ELSE /\ attr' = [attr EXCEPT ![e] = toFilePath(scriptUrl)]
               /\ loaders' = Register(loaders, files, toFilePath(scriptUrl),
                                      ScriptLoader(scriptUrl))
               /\ UNCHANGED raised
     ELSE UNCHANGED <<attr, loaders, raised>>
  /\ UNCHANGED <<otherVars, doc, files, order, requests, netCalls, bodyUsed, calls, ePc, eAwait, eFrom,
                 eSnap, eResult>>

\* fetchAsset(assetUrl), called by a user of the class
fetchAsset(assetUrl) ==
  /\ IF toFilePathThrows(assetUrl)
     THEN /\ raised' = raised \cup {assetUrl}
          /\ UNCHANGED loaders
     ELSE /\ loaders' = Register(loaders, files, toFilePath(assetUrl), AssetLoader(assetUrl))
          /\ UNCHANGED raised
  /\ UNCHANGED <<otherVars, doc, attr, files, order, requests, netCalls, bodyUsed, calls, ePc,
                 eAwait, eFrom, eSnap, eResult>>

\* the fetchAsset calls of the replacer over the matches of one scan: the first
\* toFilePath that throws ends the scan
RECURSIVE ScanAssets(_, _, _, _)
ScanAssets(ld, fs, urls, i) ==
  IF i > Len(urls) THEN [ld |-> ld, threw |-> FALSE]
  ELSE IF toFilePathThrows(urls[i]) THEN [ld |-> ld, threw |-> TRUE]
  ELSE ScanAssets(Register(ld, fs, toFilePath(urls[i]), AssetLoader(urls[i])), fs, urls, i + 1)

\* set that stores nothing
SetFileLost(id, loader) == UNCHANGED <<files, order>>

\* set(id, promise): the promise is stored and becomes the head of the chain
SetFile(id, loader) ==
  /\ files' = Put(files, id, [h |-> Len(order) + 1, loader |-> loader,
                              state |-> "fetching", content |-> NoContent])
  /\ order' = Append(order, id)

\* get without the test of this.files and without `delete this.loaders[id]`
getNoMemo(id) ==
  /\ IF id \in DOMAIN loaders
     THEN /\ DoFetch(loaders[id].url)
          /\ files' = Put(files, id, [h |-> Len(order) + 1, loader |-> loaders[id],
                                      state |-> "fetching", content |-> NoContent])
          /\ order' = Append(order, id)
          /\ UNCHANGED loaders
     ELSE UNCHANGED <<loaders, files, order, requests, netCalls>>
  /\ UNCHANGED <<otherVars, raised, doc, attr, bodyUsed, calls, ePc, eAwait, eFrom, eSnap, eResult>>

\* get(id)
get(id) ==
  /\ IF id \notin DOMAIN files /\ id \in DOMAIN loaders
     THEN /\ DoFetch(loaders[id].url)
          /\ SetFile(id, loaders[id])
          /\ loaders' = Del(loaders, id)
     ELSE UNCHANGED <<loaders, files, order, requests, netCalls>>
  /\ UNCHANGED <<otherVars, raised, doc, attr, bodyUsed, calls, ePc, eAwait, eFrom, eSnap, eResult>>

\* the network settles the request for url
NetSettle(url) ==
  /\ url \in DOMAIN requests
  /\ requests[url] = "pending"
  /\ \E o \in NetOutcomes(url) : requests' = [requests EXCEPT ![url] = o]
  /\ UNCHANGED <<otherVars, raised, doc, attr, loaders, files, order, netCalls, bodyUsed, calls, ePc,
                 eAwait, eFrom, eSnap, eResult>>

\* res.text() / res.buffer() on a response whose body was read already rejects
BodyFails(url) == url \in bodyUsed

\* the continuation of a started producer once its request has settled: the body
\* is read and, for a stylesheet, replaceCssUrls scans it up to its await
FileContinue(id) ==
  /\ id \in DOMAIN files
  /\ files[id].state = "fetching"
  /\ LET ld == files[id].loader
         url == ld.url
     IN  /\ url \in DOMAIN requests
         /\ requests[url] # "pending"
         /\ IF requests[url] = "failed" \/ BodyFails(url)
            THEN /\ files' = [files EXCEPT ![id].state = "rejected"]
                 /\ UNCHANGED <<bodyUsed, loaders>>
            ELSE /\ bodyUsed' = bodyUsed \cup {url}
                 /\ IF ld.kind = "styles"
                    THEN LET sc == ScanAssets(loaders, files,
                                              ExternalMatches(Body(url), url, 1), 1)
                         IN  /\ loaders' = sc.ld
                             /\ files' = [files EXCEPT ![id].state =
                                            IF sc.threw THEN "rejected" ELSE "rewriting"]
                    ELSE /\ files' = [files EXCEPT ![id].state = "resolved",
                                        ![id].content =
                                          IF ld.kind = "script" THEN TextOf(url)
                                          ELSE BufferOf(url)]
                         /\ UNCHANGED loaders
  /\ UNCHANGED <<otherVars, raised, doc, attr, order, requests, netCalls, calls, ePc, eAwait, eFrom, eSnap,
                 eResult>>

\* replaceCssUrls returns: every replacer promise has resolved
FileResolve(id) ==
  /\ id \in DOMAIN files
  /\ files[id].state = "rewriting"
  /\ files' = [files EXCEPT ![id].state = "resolved",
                 ![id].content = [kind |-> "text",
                                  data |-> RewriteCss(Body(files[id].loader.url),
                                                      files[id].loader.url)]]
  /\ UNCHANGED <<otherVars, raised, doc, attr, loaders, order, requests, netCalls, bodyUsed, calls, ePc,
                 eAwait, eFrom, eSnap, eResult>>

\* fetchText(url) / fetchBuffer(url), called by a user of the class
fetchCall(kind, url) ==
  /\ Len(calls) < MaxCalls
  /\ DoFetch(url)
  /\ calls' = Append(calls, [kind |-> kind, url |-> url, state |-> "waiting",
                             got |-> NoContent])
  /\ UNCHANGED <<otherVars, raised, doc, attr, loaders, files, order, bodyUsed, ePc, eAwait, eFrom, eSnap,
                 eResult>>

fetchText(url) == fetchCall("text", url)
fetchBuffer(url) == fetchCall("bytes", url)

\* .then(res => res.text()) / .then(res => res.buffer()) of a direct call
CallContinue(i) ==
  /\ i \in 1..Len(calls)
  /\ calls[i].state = "waiting"
  /\ calls[i].url \in DOMAIN requests
  /\ requests[calls[i].url] # "pending"
  /\ IF requests[calls[i].url] = "failed" \/ BodyFails(calls[i].url)
     THEN /\ calls' = [calls EXCEPT ![i].state = "error"]
          /\ UNCHANGED bodyUsed
     ELSE /\ calls' = [calls EXCEPT ![i].state = "body",
                         ![i].got = IF calls[i].kind = "text" THEN TextOf(calls[i].url)
                                    ELSE BufferOf(calls[i].url)]
          /\ bodyUsed' = bodyUsed \cup {calls[i].url}
  /\ UNCHANGED <<otherVars, raised, doc, attr, loaders, files, order, requests, netCalls, ePc, eAwait, eFrom,
                 eSnap, eResult>>

\* the barrier without the chain: this.filesPromise = promise
BarrierNoChain(k) ==
  IF k = 0 THEN "resolved"
  ELSE IF files[order[k]].state \in {"fetching", "rewriting"} THEN "pending"
  ELSE files[order[k]].state

\* the state of the barrier set by the k-th set(): promise.then(() => prevPromise)
RECURSIVE BarrierState(_)
BarrierState(k) ==
  IF k = 0 THEN "resolved"
  ELSE IF files[order[k]].state \in {"fetching", "rewriting"} THEN "pending"
  ELSE IF files[order[k]].state = "rejected" THEN "rejected"
  ELSE BarrierState(k - 1)

\* entries() is called: the first test of the loop, and its await
EntriesCall ==
  /\ ePc = "idle"
  /\ ePc' = "awaiting"
  /\ eAwait' = Len(order)
  /\ eFrom' = Len(order)
  /\ UNCHANGED <<otherVars, raised, doc, attr, loaders, files, order, requests, netCalls, bodyUsed,
                 calls, eSnap, eResult>>

\* entries() that read Object.entries(this.files) before its loop
EntriesWakeStale ==
  /\ ePc = "awaiting"
  /\ BarrierState(eAwait) # "pending"
  /\ IF BarrierState(eAwait) = "rejected"
     THEN /\ ePc' = "rejected"
          /\ UNCHANGED <<eAwait, eSnap>>
     ELSE IF eAwait # Len(order)
     THEN /\ eAwait' = Len(order)
          /\ UNCHANGED <<ePc, eSnap>>
     ELSE /\ ePc' = "collecting"
          /\ eSnap' = SubSeq(order, 1, eFrom)
          /\ UNCHANGED eAwait
  /\ UNCHANGED <<otherVars, raised, doc, attr, loaders, files, order, requests, netCalls, bodyUsed,
                 calls, eFrom, eResult>>

\* entries() that reads the files in the reverse of their insertion order
EntriesWakeReversed ==
  /\ ePc = "awaiting"
  /\ BarrierState(eAwait) # "pending"
  /\ IF BarrierState(eAwait) = "rejected"
     THEN /\ ePc' = "rejected"
          /\ UNCHANGED <<eAwait, eSnap>>
     ELSE IF eAwait # Len(order)
     THEN /\ eAwait' = Len(order)
          /\ UNCHANGED <<ePc, eSnap>>
     ELSE /\ ePc' = "collecting"
          /\ eSnap' = [k \in 1..Len(order) |-> order[Len(order) + 1 - k]]
          /\ UNCHANGED eAwait
  /\ UNCHANGED <<otherVars, raised, doc, attr, loaders, files, order, requests, netCalls,
                 bodyUsed, calls, eFrom, eResult>>

\* entries() whose loop awaits the barrier again when it has not changed
EntriesWakeAgain ==
  /\ ePc = "awaiting"
  /\ BarrierState(eAwait) # "pending"
  /\ IF BarrierState(eAwait) = "rejected"
     THEN /\ ePc' = "rejected"
          /\ UNCHANGED <<eAwait, eSnap>>
     ELSE /\ eAwait' = Len(order)
          /\ UNCHANGED <<ePc, eSnap>>
  /\ UNCHANGED <<otherVars, raised, doc, attr, loaders, files, order, requests, netCalls,
                 bodyUsed, calls, eFrom, eResult>>

\* entries() resumes after its await: it throws, awaits the new barrier, or
\* leaves the loop and reads Object.entries(this.files)
EntriesWake ==
  /\ ePc = "awaiting"
  /\ BarrierState(eAwait) # "pending"
  /\ IF BarrierState(eAwait) = "rejected"
     THEN /\ ePc' = "rejected"
          /\ UNCHANGED <<eAwait, eSnap>>
     ELSE IF eAwait # Len(order)
     THEN /\ eAwait' = Len(order)
          /\ UNCHANGED <<ePc, eSnap>>
     ELSE /\ ePc' = "collecting"
          /\ eSnap' = order
          /\ UNCHANGED eAwait
  /\ UNCHANGED <<otherVars, raised, doc, attr, loaders, files, order, requests, netCalls, bodyUsed,
                 calls, eFrom, eResult>>

\* the Promise.all entries() returns settles
EntriesSettle ==
  /\ ePc = "collecting"
  /\ \/ \E i \in 1..Len(eSnap) : files[eSnap[i]].state = "rejected"
     \/ \A i \in 1..Len(eSnap) : files[eSnap[i]].state = "resolved"
  /\ IF \E i \in 1..Len(eSnap) : files[eSnap[i]].state = "rejected"
     THEN /\ ePc' = "rejected"
          /\ UNCHANGED eResult
     ELSE /\ ePc' = "resolved"
          /\ eResult' = [i \in 1..Len(eSnap) |-> <<eSnap[i], files[eSnap[i]].content>>]
  /\ UNCHANGED <<otherVars, raised, doc, attr, loaders, files, order, requests, netCalls, bodyUsed,
                 calls, eAwait, eFrom, eSnap>>

\* the identities a user asks get for
GetIds == DOMAIN files \cup DOMAIN loaders \cup {toFilePath(Img)}

Next ==
  \/ \E e \in 1..Len(doc) : fetchStyles(e)
  \/ \E e \in 1..Len(doc) : fetchScript(e)
  \/ \E u \in AssetUrls : fetchAsset(u)
  \/ \E id \in GetIds : get(id)
  \/ \E u \in DOMAIN requests : NetSettle(u)
  \/ \E id \in DOMAIN files : FileContinue(id)
  \/ \E id \in DOMAIN files : FileResolve(id)
  \/ EntriesCall
  \/ EntriesWake
  \/ EntriesSettle

\* the file registry: documents, get, the network and entries()
Spec == InitCache /\ [][Next]_vars

\* what happens without a call from outside: a request settles, the event loop
\* runs a continuation that is ready
Continuations ==
  \/ \E u \in DOMAIN requests : NetSettle(u)
  \/ \E id \in DOMAIN files : FileContinue(id)
  \/ \E id \in DOMAIN files : FileResolve(id)
  \/ EntriesWake
  \/ EntriesSettle

\* as long as a request is pending or a continuation is ready, one of them is
\* taken in the end
Fairness == WF_vars(Continuations)

\* one stylesheet, whose image is discovered when its text arrives
DocLive == <<Link(CssA)>>

InitLive == OtherIdle /\ InitWith(DocLive)

NextLive ==
  \/ \E e \in 1..Len(doc) : fetchStyles(e)
  \/ \E id \in GetIds : get(id)
  \/ \E u \in DOMAIN requests : NetSettle(u)
  \/ \E id \in DOMAIN files : FileContinue(id)
  \/ \E id \in DOMAIN files : FileResolve(id)
  \/ EntriesCall
  \/ EntriesWake
  \/ EntriesSettle

\* the file registry for a stylesheet and its image, with every started
\* computation settling in the end
SpecLive == InitLive /\ [][NextLive]_vars /\ Fairness

InitFetch == OtherIdle /\ InitWith(DocOne)

NextFetch ==
  \/ \E e \in 1..Len(doc) : fetchStyles(e)
  \/ \E e \in 1..Len(doc) : fetchScript(e)
  \/ \E id \in GetIds : get(id)
  \/ \E u \in DOMAIN requests : NetSettle(u)
  \/ \E id \in DOMAIN files : FileContinue(id)
  \/ \E id \in DOMAIN files : FileResolve(id)
  \/ \E u \in DirectUrls : fetchText(u)
  \/ \E u \in DirectUrls : fetchBuffer(u)
  \/ \E i \in 1..Len(calls) : CallContinue(i)

\* the fetch memoizer: stylesheets, a script, and direct calls of fetchText and
\* fetchBuffer, all leading to the same URL
SpecFetch == InitFetch /\ [][NextFetch]_vars

(***************************************************************************)
(* toFilePath as a function of the URL                                     *)
(***************************************************************************)

\* calls of toFilePath on one URL
MaxApply == 2

PathSchemes == {"https:", "http:"}
PathHosts == {"www.googletagmanager.com", "fonts.googleapis.com", "cdn.example.com"}

\* the path of the URL as written, and the pathname the URL parser gives
PathNone == <<>>
PathCss == <<"/", "css">>
PathEscaped == <<"/", "img", "/", "bg%2Epng">>
PathGtag == <<"/", "gtag", "/", "js">>
Paths == {PathNone, PathCss, PathEscaped, PathGtag}

\* the query of the URL, "?" included
QueryNone == <<>>
QueryFamily == <<"?", "family=", "Roboto", ":", "400">>
QueryPlus == <<"?", "family=", "Open+Sans">>
QueryLate == <<"?", "display=", "swap", "&", "family=", "Roboto", ":", "700", ":", "x">>
QueryId == <<"?", "id=", "G1">>
Queries == {QueryNone, QueryFamily, QueryPlus, QueryLate, QueryId}

PathInputs ==
  [scheme : PathSchemes, host : PathHosts, path : Paths, query : Queries]
    \cup {[scheme |-> "", host |-> "", path |-> LocalCss, query |-> QueryNone],
          [scheme |-> "", host |-> "", path |-> ProtoRel, query |-> QueryId]}

\* the URL string of an input
UrlOf(in) ==
  (IF in.scheme = "" THEN <<>> ELSE <<in.scheme, "//", in.host>>) \o in.path \o in.query

\* what a call of toFilePath gives: the identity, or the error it throws
Threw == <<"TypeError">>
CallToFilePath(url) == IF toFilePathThrows(url) THEN Threw ELSE toFilePath(url)

InitPath ==
  /\ InitWith(<<>>)
  /\ CssIdle
  /\ PluginIdle
  /\ pIn \in PathInputs
  /\ pOut = <<>>

\* one call toFilePath(url)
ApplyToFilePath ==
  /\ Len(pOut) < MaxApply
  /\ pOut' = Append(pOut, CallToFilePath(UrlOf(pIn)))
  /\ UNCHANGED <<cacheVars, cssVars, pluginVars, pIn>>

NextPath == ApplyToFilePath

\* toFilePath called on one URL, once and again
SpecPath == InitPath /\ [][NextPath]_vars

(***************************************************************************)
(* replaceCssUrls step by step: the scan, the replacer promises in every   *)
(* order of completion, the editor                                         *)
(***************************************************************************)

\* the text as a string: a sequence of units, "url(" and ")" being units
Pad(p) == IF p = "" THEN <<>> ELSE <<p>>

FlatChunk(c) ==
  IF c.kind = "text" THEN <<c.s>>
  ELSE <<"url(">> \o Pad(c.lead) \o Pad(c.quote) \o c.target \o Pad(c.quote)
         \o Pad(c.trail) \o <<")">>

RECURSIVE Flat(_)
Flat(text) == IF text = <<>> THEN <<>> ELSE FlatChunk(Head(text)) \o Flat(Tail(text))

\* \s* : the first index from i on that is no whitespace
RECURSIVE SkipSpace(_, _)
SkipSpace(s, i) == IF i <= Len(s) /\ s[i] = " " THEN SkipSpace(s, i + 1) ELSE i

\* the first index from i on whose unit is in set, Len(s) + 1 when there is none
RECURSIVE FindIn(_, _, _)
FindIn(s, set, i) == IF i > Len(s) \/ s[i] \in set THEN i ELSE FindIn(s, set, i + 1)

NoMatch == [ok |-> FALSE, last |-> 0, from |-> 0, token |-> <<>>]

\* cssUrlRE tried at the unit i, which is "url(": the index of the closing
\* parenthesis, and match[1] with the index it begins at
MatchAt(s, i) ==
  LET a == SkipSpace(s, i + 1) IN
  IF a > Len(s) THEN NoMatch
  ELSE IF s[a] \in {"'", "\""}
  THEN LET b == FindIn(s, {s[a]}, a + 1)
           c == SkipSpace(s, b + 1)
       IN  IF b <= Len(s) /\ b > a + 1 /\ c <= Len(s) /\ s[c] = ")"
           THEN [ok |-> TRUE, last |-> c, from |-> a, token |-> SubSeq(s, a, b)]
           ELSE NoMatch
  ELSE LET b == FindIn(s, {"'", "\"", ")"}, a)
           from == IF b > a THEN a ELSE i + 1
       IN  IF b <= Len(s) /\ s[b] = ")" /\ b > from
           THEN [ok |-> TRUE, last |-> b, from |-> from, token |-> SubSeq(s, from, b - 1)]
           ELSE NoMatch

\* the matches cssUrlRE.exec(text) gives one after the other
RECURSIVE CssMatches(_, _)
CssMatches(s, i) ==
  IF i > Len(s) THEN <<>>
  ELSE IF s[i] = "url(" /\ MatchAt(s, i).ok
  THEN <<[index |-> i, last |-> MatchAt(s, i).last, from |-> MatchAt(s, i).from,
          token |-> MatchAt(s, i).token]>>
         \o CssMatches(s, MatchAt(s, i).last + 1)
  ELSE CssMatches(s, i + 1)

\* if (/^['"]/.test(url)) url = url.slice(1, -1)
StripQuotes(token) ==
  IF token[1] \in {"'", "\""} THEN SubSeq(token, 2, Len(token) - 1) ELSE token

\* the URL of a match after resolution
MatchUrl(parentUrl, m) == ResolveCssUrl(parentUrl, StripQuotes(m.token))

\* the numbers of the matches that go to the replacer
ExternalOf(parentUrl, ms) ==
  {k \in 1..Len(ms) : isExternalUrl(MatchUrl(parentUrl, ms[k]))}

\* the matches from k on, as long as no replacer call has thrown: the number of
\* the match whose replacer call throws, 0 when none does
RECURSIVE FirstThrow(_, _, _)
FirstThrow(parentUrl, ms, k) ==
  IF k > Len(ms) THEN 0
  ELSE IF k \in ExternalOf(parentUrl, ms) /\ toFilePathThrows(MatchUrl(parentUrl, ms[k]))
  THEN k
  ELSE FirstThrow(parentUrl, ms, k + 1)

\* the URLs of the matches numbered in set, in scan order
RECURSIVE UrlsOf(_, _, _, _)
UrlsOf(parentUrl, ms, set, k) ==
  IF k > Len(ms) THEN <<>>
  ELSE IF k \in set THEN <<MatchUrl(parentUrl, ms[k])>> \o UrlsOf(parentUrl, ms, set, k + 1)
  ELSE UrlsOf(parentUrl, ms, set, k + 1)

\* JSON.stringify(url)
JSONstringify(url) == <<"\"">> \o url \o <<"\"">>

\* an editor that splices at the given offsets into its current text
overwriteCurrent(ed, start, end, content) ==
  LET RECURSIVE Cur(_)
      Cur(i) ==
        IF i > Len(ed.orig) THEN <<>>
        ELSE IF i \in DOMAIN ed.edits
        THEN ed.edits[i].content \o Cur(ed.edits[i].end + 1)
        ELSE <<ed.orig[i]>> \o Cur(i + 1)
      cur == Cur(1)
  IN  [orig |-> SubSeq(cur, 1, start - 1) \o content \o SubSeq(cur, end + 1, Len(cur)),
       edits |-> [x \in {} |-> 0]]

\* editor.overwrite(start, end, content): the edit is kept under the offsets of
\* the original text (units start..end, both included)
overwrite(ed, start, end, content) ==
  [ed EXCEPT !.edits = Put(ed.edits, start, [end |-> end, content |-> content])]

\* editor.toString()
RECURSIVE Render(_, _)
Render(ed, i) ==
  IF i > Len(ed.orig) THEN <<>>
  ELSE IF i \in DOMAIN ed.edits THEN ed.edits[i].content \o Render(ed, ed.edits[i].end + 1)
  ELSE <<ed.orig[i]>> \o Render(ed, i + 1)

editorToString(ed) == Render(ed, 1)

\* the stylesheets replaceCssUrls is called with
CssInputs == {CssA, CssB, CssRel, CssImp, AppCss, CssPad, CssProto, CssMany}

InitCss ==
  /\ InitWith(<<>>)
  /\ PathIdle
  /\ PluginIdle
  /\ cParent \in CssInputs
  /\ cPc = "start"
  /\ cArgs = <<>>
  /\ cEd = NewEditor(<<>>)
  /\ cPending = {}
  /\ cDone = <<>>
  /\ cOut = <<>>

\* replaceCssUrls(text, parentUrl, url => this.fetchAsset(url)) up to its await:
\* the whole scan, with the replacer called for every external match; a replacer
\* call that throws ends the scan and rejects the call
CssScan ==
  /\ cPc = "start"
  /\ LET text == Flat(Body(cParent))
         ms == CssMatches(text, 1)
         t == FirstThrow(cParent, ms, 1)
         ext == {k \in ExternalOf(cParent, ms) : t = 0 \/ k < t}
         called == {k \in ExternalOf(cParent, ms) : t = 0 \/ k <= t}
     IN  /\ cEd' = NewEditor(text)
         /\ cArgs' = UrlsOf(cParent, ms, called, 1)
         /\ loaders' = ScanAssets(loaders, files, UrlsOf(cParent, ms, called, 1), 1).ld
         /\ cPending' = ext
         /\ cPc' = IF t = 0 THEN "waiting" ELSE "threw"
  /\ UNCHANGED <<pathVars, pluginVars, raised, doc, attr, files, order, requests, netCalls,
                 bodyUsed, calls,
                 ePc, eAwait, eFrom, eSnap, eResult, cParent, cDone, cOut>>

\* the replacer promise of match k has resolved: its then-callback overwrites
\* the span between "url(" and ")" of that match
CssEdit(k) ==
  /\ k \in cPending
  /\ LET ms == CssMatches(Flat(Body(cParent)), 1)
         url == toPublicUrl(toFilePath(MatchUrl(cParent, ms[k])))
     IN  cEd' = overwrite(cEd, ms[k].index + 1, ms[k].last - 1, JSONstringify(url))
  /\ cPending' = cPending \ {k}
  /\ cDone' = Append(cDone, k)
  /\ UNCHANGED <<cacheVars, pathVars, pluginVars, cParent, cPc, cArgs, cOut>>

\* await Promise.all(loading); return editor.toString()
CssReturn ==
  /\ cPc = "waiting"
  /\ cPending = {}
  /\ cPc' = "returned"
  /\ cOut' = editorToString(cEd)
  /\ UNCHANGED <<cacheVars, pathVars, pluginVars, cParent, cArgs, cEd, cPending, cDone>>

NextCss ==
  \/ CssScan
  \/ \E k \in cPending : CssEdit(k)
  \/ CssReturn

\* one call of replaceCssUrls with the cache's fetchAsset as the replacer
SpecCss == InitCss /\ [][NextCss]_vars

(***************************************************************************)
(* plugin.ts: transformIndexHtml.transform                                 *)
(***************************************************************************)

\* concurrent calls of transform
MaxTransforms == 2

\* the documents transform is called with
DocShared == <<Link(CssA)>>
DocPage == <<Link(CssB), ScriptEl(Script)>>
PluginDocs == {DocShared, DocPage}

\* files[file] = ''
Placeholder == [kind |-> "placeholder", data |-> <<>>]

\* one call of fetchStyles, fetchScript or fetchAsset that went past its test
\* of files[file]: t the transform it was made for, parent the stylesheet whose
\* `loading` holds it (<<>> for the `loading` of transform)
Task(t, kind, url, parent, pc) ==
  [t |-> t, kind |-> kind, url |-> url, parent |-> parent, pc |-> pc]

\* $('link[rel="stylesheet"]').each, then $('script[src]').each
ElementOrder(d) ==
  LET idx == [i \in 1..Len(d) |-> i]
      IsLink(i) == d[i].tag = "link"
      IsScript(i) == d[i].tag = "script"
  IN  SelectSeq(idx, IsLink) \o SelectSeq(idx, IsScript)

\* fetchText(url) / fetchBuffer(url) on the cache c: the promise is created once
StartFetch(c, url) == IF url \in DOMAIN c THEN c ELSE Put(c, url, "pending")

\* fetchStyles(url, el, files) / fetchScript(url, el, files) for element e, up
\* to the first await; a toFilePath that throws rejects the promise at once
StartElement(st, t, d, e) ==
  LET url == d[e].url
      kind == IF d[e].tag = "link" THEN "styles" ELSE "script"
  IN  IF ~(url # <<>> /\ isExternalUrl(url)) THEN st
      ELSE IF toFilePathThrows(url)
      THEN [st EXCEPT !.tasks = @ \cup {Task(t, kind, url, <<>>, "failed")}]
      ELSE IF toFilePath(url) \in DOMAIN st.files
      THEN [st EXCEPT !.attr[e] = toFilePath(url)]
      ELSE [st EXCEPT !.attr[e] = toFilePath(url),
                      !.files = Put(@, toFilePath(url), Placeholder),
                      !.text = StartFetch(@, url),
                      !.tasks = @ \cup {Task(t, kind, url, <<>>, "text")}]

RECURSIVE StartAll(_, _, _, _, _)
StartAll(st, t, d, es, i) ==
  IF i > Len(es) THEN st
  ELSE StartAll(StartElement(st, t, d, es[i]), t, d, es, i + 1)

\* transform(html) up to `await Promise.all(loading)`
Transform(d) ==
  /\ Len(tPc) < MaxTransforms
  /\ LET t == Len(tPc) + 1
         st == StartAll([files |-> pluginFiles, text |-> textCache,
                         attr |-> [e \in 1..Len(d) |-> d[e].url], tasks |-> tasks],
                        t, d, ElementOrder(d), 1)
     IN  /\ pluginFiles' = st.files
         /\ textCache' = st.text
         /\ tasks' = st.tasks
         /\ tAttr' = Append(tAttr, st.attr)
  /\ tPc' = Append(tPc, "loading")
  /\ tDoc' = Append(tDoc, d)
  /\ UNCHANGED <<cacheVars, pathVars, cssVars, buildVars, bufferCache>>

\* Promise.all(loading) of transform t settles: rejected with the first promise
\* that rejects, resolved when all have resolved; transform then returns $.html()
TransformSettle(t) ==
  /\ t \in 1..Len(tPc)
  /\ tPc[t] = "loading"
  /\ LET top == {k \in tasks : k.t = t /\ k.parent = <<>>} IN
     IF \E k \in top : k.pc = "failed"
     THEN tPc' = [tPc EXCEPT ![t] = "rejected"]
     ELSE /\ \A k \in top : k.pc = "done"
          /\ tPc' = [tPc EXCEPT ![t] = "resolved"]
  /\ UNCHANGED <<cacheVars, pathVars, cssVars, buildVars, pluginFiles, textCache,
                 bufferCache, tDoc, tAttr, tasks>>

\* the promise textCache[url] settles
TextSettle(url, outcome) ==
  /\ url \in DOMAIN textCache
  /\ textCache[url] = "pending"
  /\ outcome \in NetOutcomes(url)
  /\ textCache' = Put(textCache, url, outcome)
  /\ UNCHANGED <<cacheVars, pathVars, cssVars, buildVars, pluginFiles, bufferCache,
                 tPc, tDoc, tAttr, tasks>>

\* the promise bufferCache[url] settles
BufferSettle(url, outcome) ==
  /\ url \in DOMAIN bufferCache
  /\ bufferCache[url] = "pending"
  /\ outcome \in NetOutcomes(url)
  /\ bufferCache' = Put(bufferCache, url, outcome)
  /\ UNCHANGED <<cacheVars, pathVars, cssVars, buildVars, pluginFiles, textCache,
                 tPc, tDoc, tAttr, tasks>>

\* fetchScript after `await fetchText(url)`
ScriptContinue(k) ==
  /\ k \in tasks
  /\ k.kind = "script"
  /\ k.pc = "text"
  /\ textCache[k.url] # "pending"
  /\ IF textCache[k.url] = "ok"
     THEN /\ pluginFiles' = Put(pluginFiles, toFilePath(k.url), TextOf(k.url))
          /\ tasks' = (tasks \ {k}) \cup {[k EXCEPT !.pc = "done"]}
     ELSE /\ tasks' = (tasks \ {k}) \cup {[k EXCEPT !.pc = "failed"]}
          /\ UNCHANGED pluginFiles
  /\ UNCHANGED <<cacheVars, pathVars, cssVars, buildVars, textCache, bufferCache,
                 tPc, tDoc, tAttr>>

\* fetchAsset(url, files) up to its await
StartAsset(st, k, url) ==
  IF toFilePathThrows(url)
  THEN [st EXCEPT !.tasks = @ \cup {Task(k.t, "asset", url, k.url, "failed")},
                  !.threw = TRUE]
  ELSE IF toFilePath(url) \in DOMAIN st.files THEN st
  ELSE [st EXCEPT !.files = Put(@, toFilePath(url), Placeholder),
                  !.buffer = StartFetch(@, url),
                  !.tasks = @ \cup {Task(k.t, "asset", url, k.url, "buffer")}]

\* the replacer calls of one replaceCssUrls: `return toFilePath(url)` throws out
\* of the scan when fetchAsset's toFilePath did
RECURSIVE ScanPluginAssets(_, _, _, _)
ScanPluginAssets(st, k, urls, i) ==
  IF i > Len(urls) \/ st.threw THEN st
  ELSE ScanPluginAssets(StartAsset(st, k, urls[i]), k, urls, i + 1)

\* fetchStyles after `await fetchText(url)`, up to `await Promise.all(loading)`
StylesContinue(k) ==
  /\ k \in tasks
  /\ k.kind = "styles"
  /\ k.pc = "text"
  /\ textCache[k.url] # "pending"
  /\ IF textCache[k.url] = "ok"
     THEN LET st == ScanPluginAssets([files |-> pluginFiles, buffer |-> bufferCache,
                                      tasks |-> tasks \ {k}, threw |-> FALSE],
                                     k, ExternalMatches(Body(k.url), k.url, 1), 1)
          IN  /\ bufferCache' = st.buffer
              /\ IF st.threw
                 THEN /\ pluginFiles' = st.files
                      /\ tasks' = st.tasks \cup {[k EXCEPT !.pc = "failed"]}
                 ELSE /\ pluginFiles' = Put(st.files, toFilePath(k.url),
                                            [kind |-> "text",
                                             data |-> RewriteCss(Body(k.url), k.url)])
                      /\ tasks' = st.tasks \cup {[k EXCEPT !.pc = "assets"]}
     ELSE /\ tasks' = (tasks \ {k}) \cup {[k EXCEPT !.pc = "failed"]}
          /\ UNCHANGED <<pluginFiles, bufferCache>>
  /\ UNCHANGED <<cacheVars, pathVars, cssVars, buildVars, textCache, tPc, tDoc, tAttr>>

\* fetchStyles after `await Promise.all(loading)`
StylesFinish(k) ==
  /\ k \in tasks
  /\ k.kind = "styles"
  /\ k.pc = "assets"
  /\ LET kids == {a \in tasks : a.t = k.t /\ a.kind = "asset" /\ a.parent = k.url} IN
     IF \E a \in kids : a.pc = "failed"
     THEN tasks' = (tasks \ {k}) \cup {[k EXCEPT !.pc = "failed"]}
     ELSE /\ \A a \in kids : a.pc = "done"
          /\ tasks' = (tasks \ {k}) \cup {[k EXCEPT !.pc = "done"]}
  /\ UNCHANGED <<cacheVars, pathVars, cssVars, buildVars, pluginFiles, textCache,
                 bufferCache, tPc, tDoc, tAttr>>

\* fetchAsset after `await fetchBuffer(url)`
AssetContinue(k) ==
  /\ k \in tasks
  /\ k.kind = "asset"
  /\ k.pc = "buffer"
  /\ bufferCache[k.url] # "pending"
  /\ IF bufferCache[k.url] = "ok"
     THEN /\ pluginFiles' = Put(pluginFiles, toFilePath(k.url), BufferOf(k.url))
          /\ tasks' = (tasks \ {k}) \cup {[k EXCEPT !.pc = "done"]}
     ELSE /\ tasks' = (tasks \ {k}) \cup {[k EXCEPT !.pc = "failed"]}
          /\ UNCHANGED pluginFiles
  /\ UNCHANGED <<cacheVars, pathVars, cssVars, buildVars, textCache, bufferCache,
                 tPc, tDoc, tAttr>>

InitPlugin == InitWith(<<>>) /\ OtherIdle

NextTransform ==
  \/ \E d \in PluginDocs : Transform(d)
  \/ \E t \in 1..MaxTransforms : TransformSettle(t)
  \/ \E url \in DOMAIN textCache, o \in {"ok", "failed"} : TextSettle(url, o)
  \/ \E url \in DOMAIN bufferCache, o \in {"ok", "failed"} : BufferSettle(url, o)
  \/ \E k \in tasks : ScriptContinue(k)
  \/ \E k \in tasks : StylesContinue(k)
  \/ \E k \in tasks : StylesFinish(k)
  \/ \E k \in tasks : AssetContinue(k)

\* up to MaxTransforms concurrent transforms of one plugin instance
SpecTransform == InitPlugin /\ [][NextTransform]_vars

(***************************************************************************)
(* plugin.ts: configResolved and the hooks of the build                    *)
(***************************************************************************)

\* emitFile calls for one identity the model follows within one build
MaxEmits == 2

\* the identities resolveBuiltUrl is asked for; the script's is never a file
BuildIds == {toFilePath(CssA), toFilePath(Img), toFilePath(Script)}

\* a build runs from configResolved, or from the previous closeBundle, to the
\* next closeBundle: the first hook after closeBundle begins a new one
CurEmitted == IF phase = "closed" THEN EmptyMap ELSE emitted
CurWritten == IF phase = "closed" THEN EmptyMap ELSE written
CurReturned == IF phase = "closed" THEN EmptyMap ELSE returned

\* the values resolveBuiltUrl returns: `__VITE_ASSET__${assetId}__`,
\* base + fileName, and path.resolve(root, outDir, fileName) read from emitCache
AssetRef == "assetId"
PublicUrl == "publicUrl"
FilePath == "filePath"

\* the call for id returned value
Return(id, value) ==
  returned' = Put(CurReturned, id,
                  (IF id \in DOMAIN CurReturned THEN CurReturned[id] ELSE {}) \cup {value})

\* configResolved(config): a new useEmitFile, new hooks over the same emitCache
configResolved ==
  /\ phase \in {"new", "closed"}
  /\ phase' = "building"
  /\ useEmitFile' = TRUE
  /\ emitted' = EmptyMap
  /\ written' = EmptyMap
  /\ returned' = EmptyMap
  /\ UNCHANGED <<cacheVars, pathVars, cssVars, transformVars, emitCache>>

\* resolveBuiltUrl that does not look into emitCache
resolveBuiltUrlUncached(id) ==
  /\ phase # "new"
  /\ phase' = "building"
  /\ written' = CurWritten
  /\ IF id \notin DOMAIN pluginFiles
     THEN /\ emitted' = CurEmitted
          /\ returned' = CurReturned
          /\ UNCHANGED emitCache
     ELSE IF ~useEmitFile
     THEN /\ emitCache' = Put(emitCache, id, FilePath)
          /\ emitted' = CurEmitted
          /\ Return(id, PublicUrl)
     ELSE /\ Count(CurEmitted, id) < MaxEmits
          /\ emitted' = Put(CurEmitted, id, Count(CurEmitted, id) + 1)
          /\ emitCache' = Put(emitCache, id, AssetRef)
          /\ Return(id, AssetRef)
  /\ UNCHANGED <<cacheVars, pathVars, cssVars, transformVars, useEmitFile>>

\* this.resolveBuiltUrl(id)
resolveBuiltUrl(id) ==
  /\ phase # "new"
  /\ phase' = "building"
  /\ written' = CurWritten
  /\ IF id \notin DOMAIN pluginFiles
     THEN /\ emitted' = CurEmitted
          /\ returned' = CurReturned
          /\ UNCHANGED emitCache
     ELSE IF id \in DOMAIN emitCache
     THEN /\ emitted' = CurEmitted
          /\ Return(id, emitCache[id])
          /\ UNCHANGED emitCache
     ELSE IF ~useEmitFile
     THEN /\ emitCache' = Put(emitCache, id, FilePath)
          /\ emitted' = CurEmitted
          /\ Return(id, PublicUrl)
     ELSE /\ Count(CurEmitted, id) < MaxEmits
          /\ emitted' = Put(CurEmitted, id, Count(CurEmitted, id) + 1)
          /\ emitCache' = Put(emitCache, id, AssetRef)
          /\ Return(id, AssetRef)
  /\ UNCHANGED <<cacheVars, pathVars, cssVars, transformVars, useEmitFile>>

\* this.writeBundle()
writeBundle ==
  /\ phase # "new"
  /\ phase' = "building"
  /\ useEmitFile' = IF DOMAIN emitCache = {} THEN FALSE ELSE useEmitFile
  /\ emitted' = CurEmitted
  /\ written' = CurWritten
  /\ returned' = CurReturned
  /\ UNCHANGED <<cacheVars, pathVars, cssVars, transformVars, emitCache>>

\* this.closeBundle()
closeBundle ==
  /\ phase # "new"
  /\ phase' = "closed"
  /\ emitted' = CurEmitted
  /\ returned' = CurReturned
  /\ written' =
       IF ~useEmitFile
       THEN [id \in DOMAIN CurWritten \cup (DOMAIN pluginFiles \cap DOMAIN emitCache) |->
               IF id \in DOMAIN pluginFiles \cap DOMAIN emitCache
               THEN Count(CurWritten, id) + 1
               ELSE CurWritten[id]]
       ELSE CurWritten
  /\ emitCache' = EmptyMap
  /\ UNCHANGED <<cacheVars, pathVars, cssVars, transformVars, useEmitFile>>

NextBuild ==
  \/ Transform(DocShared)
  \/ \E t \in 1..MaxTransforms : TransformSettle(t)
  \/ \E url \in DOMAIN textCache, o \in {"ok", "failed"} : TextSettle(url, o)
  \/ \E url \in DOMAIN bufferCache, o \in {"ok", "failed"} : BufferSettle(url, o)
  \/ \E k \in tasks : StylesContinue(k)
  \/ \E k \in tasks : StylesFinish(k)
  \/ \E k \in tasks : AssetContinue(k)
  \/ configResolved
  \/ \E id \in BuildIds : resolveBuiltUrl(id)
  \/ writeBundle
  \/ closeBundle

\* the builds of one plugin instance, in watch mode one after the other
SpecBuild == InitPlugin /\ [][NextBuild]_vars

(***************************************************************************)
(* Properties of AsyncFileCache                                            *)
(***************************************************************************)

Ids == DOMAIN files \cup DOMAIN loaders

Producer(id) == IF id \in DOMAIN files THEN files[id].loader ELSE loaders[id]

ProducerNext(id) == IF id \in DOMAIN files' THEN files'[id].loader ELSE loaders'[id]

Occurrences(seq, x) == Cardinality({k \in 1..Len(seq) : seq[k] = x})

ResultIds(res) == {res[k][1] : k \in 1..Len(res)}

\* C1: the network fetch for a URL is invoked at most once in the life of the
\* cache, whatever the number, the kind (text or bytes) and the interleaving of
\* the fetchText / fetchBuffer calls and of the stylesheet, script and url()
\* references that ask for it; every recorded request stands for that one call
C1_FetchedOnce ==
  /\ \A u \in DOMAIN netCalls : netCalls[u] = 1
  /\ DOMAIN netCalls = DOMAIN requests

\* the image was asked for as text and as bytes by direct calls, by the script
\* element and by the url() of both stylesheets
C1_Witness ==
  /\ Len(calls) = 2
  /\ calls[1].url = Img /\ calls[2].url = Img
  /\ calls[1].kind # calls[2].kind
  /\ attr[3] = toFilePath(Img)
  /\ toFilePath(Img) \in DOMAIN files
  /\ \A css \in {CssA, CssB} :
       /\ toFilePath(css) \in DOMAIN files
       /\ files[toFilePath(css)].state \in {"rewriting", "resolved"}
  /\ Count(netCalls, Img) = 1

\* C2: every caller of fetchText(u) / fetchBuffer(u) whose request succeeded has
\* obtained the body, as text or as bytes, whoever asked for u before it; so has
\* every producer that read the response
C2_EveryCallerGetsBody ==
  /\ \A i \in 1..Len(calls) :
       (calls[i].state # "waiting" /\ requests[calls[i].url] = "ok") =>
         /\ calls[i].state = "body"
         /\ calls[i].got = (IF calls[i].kind = "text" THEN TextOf(calls[i].url)
                            ELSE BufferOf(calls[i].url))
  /\ \A id \in DOMAIN files :
       requests[files[id].loader.url] = "ok" => files[id].state # "rejected"

\* C3: each identity has exactly one entry
C3_OneEntry ==
  \A id \in Ids :
    /\ ~(id \in DOMAIN files /\ id \in DOMAIN loaders)
    /\ Occurrences(order, id) <= 1

\* C3: registration is idempotent: an identity has one entry, and every later
\* discovery keeps the entry and the producer of the first one
C3_RegistrationIdempotent ==
  /\ []C3_OneEntry
  /\ [][\A id \in Ids :
          /\ id \in DOMAIN files' \cup DOMAIN loaders'
          /\ ProducerNext(id) = Producer(id)]_cacheVars

\* two URLs of one identity were discovered, and the producer is still the one
\* of the first discovery (the second element's URL), started or not
C3_Witness ==
  /\ doc = DocFonts
  /\ attr[1] = toFilePath(Fonts400)
  /\ attr[2] = toFilePath(Fonts700)
  /\ toFilePath(Fonts400) \in DOMAIN files
  /\ files[toFilePath(Fonts400)].loader = StylesLoader(Fonts700)

C4_StartedOnce ==
  /\ \A id \in DOMAIN files :
       /\ Occurrences(order, id) = 1
       /\ order[files[id].h] = id
       /\ id \notin DOMAIN loaders
  /\ \A u \in DOMAIN requests :
       /\ \E id \in DOMAIN files : files[id].loader.url = u
       /\ Count(netCalls, u) = 1

\* C4: get starts the producer on the first access only, and every get returns
\* the handle that invocation created: a started identity keeps its handle, was
\* started once, and no request exists that a get did not start
C4_GetStartsOnce ==
  /\ []C4_StartedOnce
  /\ [][\A id \in DOMAIN files :
          id \in DOMAIN files' /\ files'[id].h = files[id].h]_cacheVars

C4_Witness ==
  /\ Len(order) >= 2
  /\ \E id \in DOMAIN files : files[id].state = "resolved"
  /\ \E id \in DOMAIN files : files[id].state = "rejected"
  /\ \E id \in DOMAIN files : files[id].state = "fetching"

EntriesResolves == ePc # "resolved" /\ ePc' = "resolved"

\* C6 as stated: when entries() resolves, its result has a pair for every
\* identity has() is true for
C6_EveryRegisteredInResult ==
  [][EntriesResolves =>
       \A id \in DOMAIN files' \cup DOMAIN loaders' : id \in ResultIds(eResult')]_cacheVars

\* C6 amended: when entries() resolves, its result has exactly one pair, with
\* the resolved content, for every identity whose producer was started before
\* the loop ended, and none for an identity that is only registered
C6_EveryStartedInResult ==
  [][EntriesResolves =>
       /\ \A id \in DOMAIN files' :
            files'[id].h <= eAwait' =>
              /\ Occurrences(eResult', <<id, files'[id].content>>) = 1
              /\ files'[id].state = "resolved"
       /\ \A id \in DOMAIN loaders' : id \notin ResultIds(eResult')
       /\ Len(eResult') = eAwait']_cacheVars

\* entries() resolved with a pair while another identity is only registered
C6_Witness ==
  /\ ePc = "resolved"
  /\ Len(eResult) >= 1
  /\ eFrom < Len(eResult)
  /\ DOMAIN loaders # {}

C7_NoPartialResult ==
  /\ ePc \in {"collecting", "resolved"} =>
       \A k \in 1..eAwait : files[order[k]].state # "rejected"
  /\ ePc = "rejected" => \E id \in DOMAIN files : files[id].state = "rejected"

\* C7: entries() does not resolve when a started producer has failed, and a
\* failed identity stays failed: it is not registered, started or fetched again
C7_FailureIsFinal ==
  /\ []C7_NoPartialResult
  /\ [][\A id \in DOMAIN files :
          files[id].state = "rejected" =>
            /\ id \in DOMAIN files' /\ files'[id] = files[id]
            /\ id \notin DOMAIN loaders'
            /\ Count(netCalls', files[id].loader.url)
                 = Count(netCalls, files[id].loader.url)]_cacheVars

\* entries() rejected: one stylesheet failed, another identity resolved, and the
\* failed one was discovered again
C7_Witness ==
  /\ doc = DocCss
  /\ ePc = "rejected"
  /\ toFilePath(CssA) \in DOMAIN files
  /\ files[toFilePath(CssA)].state = "rejected"
  /\ \E id \in DOMAIN files : files[id].state = "resolved"
  /\ attr[1] = toFilePath(CssA)

C8_Registered ==
  \A id \in Ids :
    /\ ~(id \in DOMAIN files /\ id \in DOMAIN loaders)
    /\ ~toFilePathThrows(Producer(id).url)
    /\ toFilePath(Producer(id).url) = id

\* C8: has(id) is true exactly for the registered identities, stays true, and a
\* started entry changes state once, from pending to settled
C8_LifecycleMonotone ==
  /\ []C8_Registered
  /\ [][/\ \A id \in Ids : id \in DOMAIN files' \cup DOMAIN loaders'
        /\ \A id \in DOMAIN files :
             /\ files[id].state \in {"resolved", "rejected"} => files'[id] = files[id]
             /\ files[id].state = "rewriting" =>
                  files'[id].state \in {"rewriting", "resolved"}]_cacheVars

\* get has moved one producer to the started table, which has settled, while
\* another identity is registered and not started
C8_Witness ==
  /\ \E id \in DOMAIN files : files[id].state = "resolved"
  /\ \E id \in DOMAIN files : files[id].state = "rejected"
  /\ DOMAIN loaders # {}

C9_RewrittenIsRegistered ==
  \A e \in 1..Len(doc) : attr[e] # doc[e].url => has(attr[e])

\* C9: the step that rewrites an element's attribute sets it to the identity of
\* its URL and registers the identity in the same step, with no request made
\* or settled in it; a rewritten attribute is always registered
C9_RegistrationSynchronous ==
  /\ []C9_RewrittenIsRegistered
  /\ [][\A e \in 1..Len(doc) :
          attr'[e] # attr[e] =>
            /\ attr'[e] = toFilePath(attr[e])
            /\ attr'[e] \in DOMAIN files' \cup DOMAIN loaders'
            /\ requests' = requests
            /\ files' = files]_cacheVars

\* both font links are rewritten to the one identity, which is registered, and
\* no request was made
C9_Witness ==
  /\ doc = DocFonts
  /\ attr[1] = toFilePath(Fonts400)
  /\ attr[2] = toFilePath(Fonts400)
  /\ toFilePath(Fonts400) \in DOMAIN loaders
  /\ requests = EmptyMap

\* the URLs written in the document, in a stylesheet text, or passed to fetchAsset
WrittenUrls ==
  {doc[e].url : e \in 1..Len(doc)} \cup DirectUrls
    \cup {Body(u)[k].target : u \in {CssA, CssB, CssRel, CssImp}, k \in 1..3}

\* C10: a reference that does not begin with http://, https:// or // is left
\* untouched, and nothing is registered or fetched for it: every producer's URL
\* is a written reference that begins so, and a stylesheet's content keeps the
\* url() tokens that do not
C10_LocalNeverEnters ==
  /\ [](\A id \in Ids :
         /\ isExternalUrlPrefix(Producer(id).url)
         /\ Producer(id).url \in WrittenUrls)
  /\ [](\A id \in DOMAIN files :
         (files[id].state = "resolved" /\ files[id].loader.kind = "styles") =>
           \A k \in 1..Len(files[id].content.data) :
             ~isExternalUrlPrefix(Body(files[id].loader.url)[k].target) =>
               files[id].content.data[k] = Body(files[id].loader.url)[k])
  /\ [][\A e \in 1..Len(doc) :
          ~isExternalUrlPrefix(attr[e]) => attr'[e] = attr[e]]_cacheVars

(***************************************************************************)
(* Properties of toFilePath                                                *)
(***************************************************************************)

\* the pathname of a written path, percent-decoded
ExpectedPath(path) ==
  IF path = PathNone THEN <<"/">>
  ELSE IF path = PathEscaped THEN <<"/", "img", "/", "bg.png">>
  ELSE path

\* the value of the first family parameter up to its first ":"
ExpectedFamily(query) ==
  IF query = QueryPlus THEN <<"Open Sans">> ELSE <<"Roboto">>

\* C11: toFilePath is a function of the URL alone and follows the three rules:
\* the tag manager host gives /www.googletagmanager.com/gtag.js whatever the
\* path and query, the fonts host with a family parameter gives
\* /fonts.googleapis.com/<Name>.css with the part of the value before its first
\* ":", every other host gives /<host><decoded path> whatever the query; two
\* calls on one URL give the same identity
C11_MappingRules ==
  \A k \in 1..Len(pOut) :
    /\ pOut[k] = pOut[1]
    /\ pIn.host = "www.googletagmanager.com" =>
         pOut[k] = <<"/", "www.googletagmanager.com", "/", "gtag.js">>
    /\ (pIn.host = "fonts.googleapis.com"
          /\ pIn.query \in {QueryFamily, QueryPlus, QueryLate}) =>
         pOut[k] = <<"/", "fonts.googleapis.com", "/">>
                     \o ExpectedFamily(pIn.query) \o <<".css">>
    /\ pIn.host = "cdn.example.com" =>
         pOut[k] = <<"/", "cdn.example.com">> \o ExpectedPath(pIn.path)

\* toFilePath was called twice on a fonts URL whose family value has two ":"
\* and on a URL with an escaped path under another host
C11_Witness ==
  /\ Len(pOut) = 2
  /\ \/ /\ pIn.host = "fonts.googleapis.com" /\ pIn.query = QueryLate
        /\ pOut[2] = <<"/", "fonts.googleapis.com", "/", "Roboto", ".css">>
     \/ /\ pIn.host = "cdn.example.com" /\ pIn.path = PathEscaped
        /\ pIn.query = QueryId
        /\ pOut[2] = <<"/", "cdn.example.com", "/", "img", "/", "bg.png">>

(***************************************************************************)
(* Properties of replaceCssUrls                                            *)
(***************************************************************************)

\* C12: the text replaceCssUrls returns is the same for every order in which
\* the replacer promises of its matches complete: it is the text with the span
\* of every external match overwritten, a function of the text and parentUrl
C12_OrderIndependent ==
  cPc = "returned" => cOut = Flat(RewriteCss(Body(cParent), cParent))

\* four replacer promises completed in the reverse of the scan order
C12_Witness ==
  /\ cPc = "returned"
  /\ cParent = CssMany
  /\ cDone = <<4, 3, 2, 1>>

\* the text of s between the spans lo..hi of the matches ms: before the first
\* (k = 0), after the k-th
Gap(s, ms, lo, hi, k) ==
  SubSeq(s, IF k = 0 THEN 1 ELSE hi[k] + 1,
            IF k = Len(ms) THEN Len(s) ELSE lo[k + 1] - 1)

\* the text out differs from the text in only inside the spans lo..hi of the
\* matches of external URLs, where the quoted identity stands
OnlyInSpans(in, out, parentUrl, lo(_), hi(_)) ==
  LET ms == CssMatches(in, 1)
      mo == CssMatches(out, 1)
      li == [k \in 1..Len(ms) |-> lo(ms[k])]
      hi_i == [k \in 1..Len(ms) |-> hi(ms[k])]
      lo_o == [k \in 1..Len(mo) |-> lo(mo[k])]
      hi_o == [k \in 1..Len(mo) |-> hi(mo[k])]
  IN  /\ Len(mo) = Len(ms)
      /\ \A k \in 0..Len(ms) : Gap(out, mo, lo_o, hi_o, k) = Gap(in, ms, li, hi_i, k)
      /\ \A k \in 1..Len(ms) :
           SubSeq(out, lo_o[k], hi_o[k]) =
             IF k \in ExternalOf(parentUrl, ms)
             THEN JSONstringify(toPublicUrl(toFilePath(MatchUrl(parentUrl, ms[k]))))
             ELSE SubSeq(in, li[k], hi_i[k])

TokenFrom(m) == m.from
TokenTo(m) == m.from + Len(m.token) - 1

\* C13: replaceCssUrls returns for every stylesheet, and the text it returns
\* differs from the text it was given only inside the token spans (match[1],
\* quotes included) of the url() expressions whose resolved URL is external,
\* where the quoted identity stands; all other text, the url( ... ) around the
\* tokens included, and every other token are unchanged
C13_OnlyTokenSpansChange ==
  /\ cPc # "threw"
  /\ cPc = "returned" =>
       OnlyInSpans(Flat(Body(cParent)), cOut, cParent, TokenFrom, TokenTo)

RootImg == <<"https:", "//", "cdn.example.com", "/", "img", "/", "a.png">>
StylesImg == <<"https:", "//", "cdn.example.com", "/", "styles", "/", "img", "/", "a.png">>

NoFamily(url) ==
  /\ ValidUrl(url)
  /\ UrlHost(url) = "fonts.googleapis.com"
  /\ SearchParam(url, "family=") = <<>>

C18_NothingForReference ==
  /\ \A e \in 1..Len(doc) : NoFamily(doc[e].url) => attr[e] = doc[e].url
  /\ \A id \in Ids : ~NoFamily(Producer(id).url)
  /\ \A u \in DOMAIN requests : ~NoFamily(u)

\* C18: fetchStyles and fetchAsset called with a fonts.googleapis.com URL that
\* has no family parameter throw, and the step that throws changes nothing
\* else: the attribute is never rewritten, and no identity is ever registered,
\* started or fetched for such a URL
C18_DerivationFailsCleanly ==
  /\ []C18_NothingForReference
  /\ [][\A e \in 1..Len(doc) :
          (NoFamily(attr[e]) /\ fetchStyles(e)) => attr[e] \in raised']_vars
  /\ [][fetchAsset(FontsNoFamily) => FontsNoFamily \in raised']_vars
  /\ [][raised' # raised =>
          /\ attr' = attr
          /\ loaders' = loaders
          /\ files' = files
          /\ requests' = requests]_vars

\* fetchStyles has thrown for the link without family, after the script of the
\* same document was rewritten and registered
C18_Witness ==
  /\ doc = DocOdd
  /\ FontsNoFamily \in raised
  /\ attr[3] = FontsNoFamily
  /\ attr[2] = toFilePath(Gtag)
  /\ has(toFilePath(Gtag))

(***************************************************************************)
(* Termination and order of entries()                                      *)
(***************************************************************************)

\* C19: every call of entries() resolves or rejects in the end, whatever is
\* started while it waits, when every request settles and every continuation
\* is run
C19_EntriesTerminates ==
  (ePc = "awaiting") ~> (ePc \in {"resolved", "rejected"})

\* entries() has resolved after it went round its loop for computations that
\* were started during the wait
C19_Witness ==
  /\ ePc = "resolved"
  /\ eFrom < eAwait
  /\ eAwait = Len(order)

\* C20: the pairs entries() returns are in the order in which their
\* computations were started by set, first started first; a request that
\* settles and a continuation that runs never change that order, so it is the
\* same for every order in which the fetches complete
C20_ResultInStartOrder ==
  /\ [](ePc = "resolved" =>
          [k \in 1..Len(eResult) |-> eResult[k][1]] = SubSeq(order, 1, Len(eResult)))
  /\ [][Continuations => order' = order]_vars
  /\ [][Len(order') >= Len(order) /\ SubSeq(order', 1, Len(order)) = order]_vars

\* entries() resolved with three pairs whose order is neither that of the
\* document nor that of discovery: b.css was started first, a.css last
C20_Witness ==
  /\ doc = DocCss
  /\ ePc = "resolved"
  /\ Len(eResult) = 3
  /\ eResult[1][1] = toFilePath(CssB)
  /\ eResult[2][1] = toFilePath(Img)
  /\ eResult[3][1] = toFilePath(CssA)

\* the element e has been rewritten by an earlier pass
Rewritten(e) == attr[e] # doc[e].url

\* the element e refers to an identity the registry already holds
Populated(e) ==
  /\ isExternalUrl(attr[e])
  /\ ~toFilePathThrows(attr[e])
  /\ toFilePath(attr[e]) \in Ids

\* a second pass over the rewritten element: the output is the first pass's,
\* nothing is registered, requested or raised
C14_RewrittenAgain ==
  [][\A e \in 1..Len(doc) :
       (Rewritten(e) /\ (fetchStyles(e) \/ fetchScript(e))) =>
         /\ attr' = attr
         /\ loaders' = loaders
         /\ requests' = requests
         /\ raised' = raised]_vars

\* a second pass over an original reference whose identity is populated: the
\* element gets the same path, nothing is registered, requested or raised
C14_OriginalAgain ==
  [][\A e \in 1..Len(doc) :
       (Populated(e) /\ (fetchStyles(e) \/ fetchScript(e))) =>
         /\ attr'[e] = toFilePath(attr[e])
         /\ loaders' = loaders
         /\ requests' = requests
         /\ raised' = raised]_vars

\* C14: rewriting is idempotent: a second pass with a populated registry, over
\* the original document or over the rewritten one, gives the output of the
\* first pass, issues no request, registers no identity and changes no path
C14_Idempotent == C14_RewrittenAgain /\ C14_OriginalAgain

\* the second pass over the rewritten script element of the tag manager raised
C14_Raised ==
  \E e \in 1..Len(doc) :
    /\ doc[e].url = Gtag
    /\ attr[e] = toFilePath(Gtag)
    /\ attr[e] \in raised

(***************************************************************************)
(* Properties of the plugin                                                *)
(***************************************************************************)

\* the identities the document rewritten by transform t refers to, and the
\* identities its stylesheets refer to once rewritten
ReferencedIds(t) ==
  LET rewritten == {e \in 1..Len(tDoc[t]) : tAttr[t][e] # tDoc[t][e].url}
      sheets == {e \in rewritten : tDoc[t][e].tag = "link"}
      Nested(u) == {ExternalMatches(Body(u), u, 1)[i] :
                      i \in 1..Len(ExternalMatches(Body(u), u, 1))}
  IN  {tAttr[t][e] : e \in rewritten}
        \cup UNION {{toFilePath(x) : x \in {y \in Nested(tDoc[t][e].url) : ~toFilePathThrows(y)}} :
                      e \in sheets}

\* the file map holds the completely fetched content of id
Complete(id) == id \in DOMAIN pluginFiles /\ pluginFiles[id] # Placeholder

\* C17: once transform has resolved for a document, every identity the
\* rewritten document refers to, and every identity its rewritten stylesheets
\* refer to, holds its completely fetched content in the file map, never the
\* empty placeholder, also with another transform in flight or an earlier
\* failed fetch for the identity
C17_ResolvedMeansComplete ==
  \A t \in 1..Len(tPc) :
    tPc[t] = "resolved" => \A id \in ReferencedIds(t) : Complete(id)

\* a transform resolved while the transform that registered its stylesheet is
\* still waiting for the text: the file map holds the placeholder
C17_ResolvedInFlight ==
  /\ Len(tPc) = 2
  /\ tPc[1] = "loading"
  /\ tPc[2] = "resolved"
  /\ tDoc[2] = DocShared
  /\ pluginFiles[toFilePath(CssA)] = Placeholder

\* a transform resolved after the fetch of its stylesheet had failed for an
\* earlier transform, which rejected: the placeholder stays
C17_ResolvedAfterFailure ==
  /\ Len(tPc) = 2
  /\ tPc[1] = "rejected"
  /\ tPc[2] = "resolved"
  /\ textCache[CssA] = "failed"
  /\ pluginFiles[toFilePath(CssA)] = Placeholder

\* C16: within one build, from configResolved or the previous closeBundle to
\* the next closeBundle, each identity is emitted or written to disk at most
\* once, however often resolveBuiltUrl is called for it and in whatever order
\* writeBundle and resolveBuiltUrl occur
C16_AtMostOncePerBuild ==
  \A id \in BuildIds : Count(emitted, id) + Count(written, id) <= 1

\* a build in which writeBundle found nothing emitted and resolveBuiltUrl came
\* after it: closeBundle has written the stylesheet and its image, each once
C16_WitnessWritten ==
  /\ phase = "closed"
  /\ ~useEmitFile
  /\ Count(written, toFilePath(CssA)) = 1
  /\ Count(written, toFilePath(Img)) = 1

(***************************************************************************)
(* Injectivity of toFilePath                                               *)
(***************************************************************************)

\* an external URL that toFilePath accepts and whose host has no rule of its own
GeneralUrl(in) ==
  /\ in.scheme # ""
  /\ in.host \notin {"www.googletagmanager.com", "fonts.googleapis.com"}
  /\ ~toFilePathThrows(UrlOf(in))

\* the inputs that differ from pIn in the written path only
OtherPaths == {in \in PathInputs : in.scheme = pIn.scheme /\ in.host = pIn.host
                                     /\ in.query = pIn.query /\ in.path # pIn.path}

\* the identity of a URL under a general host differs from that of every URL
\* with another path
C21_DistinctPaths ==
  \A k \in 1..Len(pOut) : \A other \in OtherPaths :
    (GeneralUrl(pIn) /\ GeneralUrl(other)) => CallToFilePath(UrlOf(other)) # pOut[k]

\* C21: outside the two hosts with a collapsing rule toFilePath is injective:
\* two distinct external URLs never get the same identity
C21_Injective ==
  \A k \in 1..Len(pOut) : \A other \in PathInputs :
    (GeneralUrl(pIn) /\ GeneralUrl(other) /\ UrlOf(other) # UrlOf(pIn)) =>
      CallToFilePath(UrlOf(other)) # pOut[k]

\* toFilePath gave https://cdn.example.com/css?id=G1 the identity that
\* http://cdn.example.com/css has
C21_SharedIdentity ==
  /\ Len(pOut) >= 1
  /\ pIn = [scheme |-> "https:", host |-> "cdn.example.com", path |-> PathCss,
            query |-> QueryId]
  /\ pOut[1] = toFilePath(<<"http:", "//", "cdn.example.com", "/", "css">>)
  /\ pOut[1] = <<"/", "cdn.example.com", "/", "css">>

(***************************************************************************)
(* Stability of resolveBuiltUrl                                            *)
(***************************************************************************)

\* in emitFile mode every call for an identity returns the asset reference of
\* the first call
C22_StableWhenEmitting ==
  \A id \in DOMAIN returned : AssetRef \in returned[id] => returned[id] = {AssetRef}

\* C22: between two closeBundle calls every call of resolveBuiltUrl for an
\* identity with known content returns what the first call returned, in
\* emitFile mode and in manual-write mode
C22_StableWithinBuild ==
  \A id \in DOMAIN returned : Cardinality(returned[id]) <= 1

\* in manual-write mode the first call for the stylesheet returned
\* base + fileName and a later call of the same build the file path
C22_TwoValues ==
  /\ phase = "building"
  /\ ~useEmitFile
  /\ toFilePath(CssA) \in DOMAIN returned
  /\ returned[toFilePath(CssA)] = {PublicUrl, FilePath}

====
